---- MODULE Spec2Model ----
(***************************************************************************)
(* RawResource (src/src/lib.rs): a zero-copy wrapper that takes over the   *)
(* allocation of a Vec<u8> and releases it in its Drop implementation.     *)
(*                                                                         *)
(* The model holds the allocator's heap, the source Vecs of the callers,   *)
(* the RawResource values, the resources each owning context (a scope on   *)
(* a thread) holds, the deallocation requests the allocator has received,  *)
(* and the value the latest operation returned, with the context that     *)
(* called it (NoRet when it returns nothing).                              *)
(***************************************************************************)
EXTENDS Integers, Sequences, FiniteSets, Bags

VARIABLES heap, vecs, res, has, ctx, log, ub, ret

vars == <<heap, vecs, res, has, ctx, log, ub, ret>>

(***************************************************************************)
(* Bounds of the model.                                                    *)
(***************************************************************************)
MaxVecs == 2      \* Vecs built over a run (so resources built: 0..MaxVecs)
MaxCap == 2       \* largest capacity of a Vec; its length is 0..capacity

(* The owning contexts: two scopes, each on a thread of its own. *)
Ctx == {"main", "worker"}

(* The content of the v-th Vec built, when it holds n bytes: the Vecs hold
   pairwise distinct bytes, as the inputs of the crate's tests do. *)
Fill(v, n) == [k \in 1..n |-> 10 * v + k]
Byte == {10 * v + k : v \in 1..MaxVecs, k \in 1..MaxCap}

(***************************************************************************)
(* Addresses.  Null is the null pointer; Dangling is the well-aligned      *)
(* non-null address an unallocated (capacity 0) Vec<u8> carries; the heap  *)
(* hands out the addresses above it.                                       *)
(***************************************************************************)
Null == 0
Dangling == 1
HeapAddr == (Dangling + 1)..(Dangling + MaxVecs)

(* The error refine returns: the EmptyBuffer failure. *)
EmptyBuffer == "Cannot refine empty data: buffer must contain at least one byte"

RECURSIVE SeqsOfLen(_)
SeqsOfLen(n) ==
    IF n = 0 THEN {<<>>}
    ELSE {Append(s, b) : s \in SeqsOfLen(n - 1), b \in Byte}

(***************************************************************************)
(* The allocator.  heap is the sequence of every allocation made so far:   *)
(* [addr, size, bytes, live, nfree]; bytes is the initialised prefix.  An  *)
(* address is reused once the allocation at it has been freed.             *)
(***************************************************************************)
LiveAllocs(h) == {i \in DOMAIN h : h[i].live}
LiveAt(h, a) == {i \in DOMAIN h : h[i].live /\ h[i].addr = a}
FreeAddrs(h) == {a \in HeapAddr : LiveAt(h, a) = {}}

(* The allocation a request for address a speaks of: the latest made at a. *)
AllocsAt(h, a) == {i \in DOMAIN h : h[i].addr = a}
TargetOf(h, a) ==
    IF AllocsAt(h, a) = {} THEN 0
    ELSE CHOOSE i \in AllocsAt(h, a) : \A j \in AllocsAt(h, a) : j <= i

(* A deallocation request is valid when it names a live allocation by its
   address and its exact size. *)
ValidDealloc(h, req) ==
    \E i \in LiveAt(h, req.addr) : h[i].size = req.size

Noted(h, a) ==
    IF TargetOf(h, a) = 0 THEN h
    ELSE [h EXCEPT ![TargetOf(h, a)].nfree = @ + 1]

(* The heaps a deallocation request can leave: for a valid request the
   allocation is freed; an invalid one (double free, wrong size, no such
   allocation) is undefined behaviour: any live allocation may be lost. *)
Dealloc(h, req) ==
    IF ValidDealloc(h, req)
    THEN {[Noted(h, req.addr) EXCEPT ![TargetOf(h, req.addr)].live = FALSE]}
    ELSE {Noted(h, req.addr)}
         \cup {[Noted(h, req.addr) EXCEPT ![i].live = FALSE] : i \in LiveAllocs(h)}

RECURSIVE DeallocAll(_, _)
(* The heaps left by the requests of the sequence reqs, made in order. *)
DeallocAll(hs, reqs) ==
    IF reqs = <<>> THEN hs
    ELSE DeallocAll(UNION {Dealloc(h, Head(reqs)) : h \in hs}, Tail(reqs))

RECURSIVE AllValid(_, _)
AllValid(h, reqs) ==
    IF reqs = <<>> THEN TRUE
    ELSE /\ ValidDealloc(h, Head(reqs))
         /\ \A h2 \in Dealloc(h, Head(reqs)) : AllValid(h2, Tail(reqs))

(* The bytes a read of n bytes at address a can see: those of the live
   allocation there; a read of freed or unallocated memory is undefined. *)
ReadMem(h, a, n) ==
    IF \E i \in LiveAt(h, a) : n <= Len(h[i].bytes)
    THEN {SubSeq(h[i].bytes, 1, n) : i \in {j \in LiveAt(h, a) : n <= Len(h[j].bytes)}}
    ELSE SeqsOfLen(n)

(***************************************************************************)
(* Vec<u8>: [ptr, len, cap, data, buf, st, owner].  data is the content    *)
(* the caller put in and buf the allocation made for it (0 when it has     *)
(* none); st is "armed" while the Vec will free its buffer when dropped,   *)
(* "forgotten" once wrapped in ManuallyDrop, "dropped" once dropped.       *)
(***************************************************************************)
VecDropReqs(v) ==
    IF v.cap > 0 THEN <<[addr |-> v.ptr, size |-> v.cap]>> ELSE <<>>

(***************************************************************************)
(* RawResource: [ptr, len, cap] as in the struct; st ("Live", "Released")  *)
(* and src (the Vec it was refined from) record its history.  The struct   *)
(* holds no flag telling whether it has been released.                     *)
(***************************************************************************)
(* A slip: the emptiness test made on the capacity. *)
refine_is_empty_by_cap(v) == v.cap = 0

refine_is_empty(v) == v.len = 0

(* A slip: the capacity stored as the length. *)
refine_fields_cap_as_len(v) == [ptr |-> v.ptr, len |-> v.cap, cap |-> v.cap]

(* A slip: length and capacity stored in each other's place. *)
refine_fields_swapped(v) == [ptr |-> v.ptr, len |-> v.cap, cap |-> v.len]

(* A slip: the buffer taken as exactly full, its capacity not kept. *)
refine_fields_no_capacity(v) == [ptr |-> v.ptr, len |-> v.len, cap |-> v.len]

refine_fields(v) == [ptr |-> v.ptr, len |-> v.len, cap |-> v.cap]

(* A slip: the null test inverted, so that drop frees nothing. *)
drop_guard_inverted(r) == r.ptr = Null /\ r.cap > 0

(* A slip: the guard asks for spare capacity. *)
drop_guard_spare_capacity(r) == r.ptr # Null /\ r.cap > r.len

drop_guard(r) == r.ptr # Null /\ r.cap > 0

(* A slip: the buffer handed back with its length as its size. *)
drop_request_by_len(r) == [addr |-> r.ptr, size |-> r.len]

(* Vec::from_raw_parts(ptr, len, cap), dropped at once: the buffer at ptr
   is handed back with the size cap. *)
drop_request(r) == [addr |-> r.ptr, size |-> r.cap]

DropReqs(r) == IF drop_guard(r) THEN <<drop_request(r)>> ELSE <<>>

as_ptr(r) == r.ptr

len(r) == r.len

(* A slip: the test inverted. *)
is_empty_inverted(r) == r.len # 0

is_empty(r) == r.len = 0

(* A slip: the slice spans the whole buffer, its spare capacity included. *)
as_slice_to_capacity(r) == ReadMem(heap, r.ptr, r.cap)

as_slice(r) == ReadMem(heap, r.ptr, r.len)

(***************************************************************************)
(* Initial state: nothing allocated, nothing built, every context open.    *)
(***************************************************************************)
NoRet == [op |-> "none", id |-> 0, val |-> 0, by |-> "none"]

Init ==
    /\ heap = <<>>
    /\ vecs = <<>>
    /\ res = <<>>
    /\ has = [c \in Ctx |-> {}]
    /\ ctx = [c \in Ctx |-> "active"]
    /\ log = EmptyBag
    /\ ub = FALSE
    /\ ret = NoRet

(***************************************************************************)
(* The log of deallocation requests, a bag of [addr, size, who, id, by]:   *)
(* who is "res" (the drop of RawResource id) or "vec" (the drop of Vec     *)
(* id), by the context that ran the drop.                                  *)
(***************************************************************************)
Entries(reqs, who, id, by) ==
    [k \in DOMAIN reqs |->
        [addr |-> reqs[k].addr, size |-> reqs[k].size, who |-> who, id |-> id, by |-> by]]

Reqs(es) == [k \in DOMAIN es |-> [addr |-> es[k].addr, size |-> es[k].size]]

RECURSIVE Logged(_)
Logged(es) ==
    IF es = <<>> THEN EmptyBag ELSE SetToBag({Head(es)}) (+) Logged(Tail(es))

(* The requests es reach the allocator, in order. *)
Release(es) ==
    /\ heap' \in DeallocAll({heap}, Reqs(es))
    /\ log' = log (+) Logged(es)
    /\ ub' = (ub \/ ~AllValid(heap, Reqs(es)))

(***************************************************************************)
(* A caller builds a Vec<u8> of n bytes with capacity cap >= n.  A Vec of  *)
(* capacity 0 owns no allocation.                                          *)
(***************************************************************************)
NewVec(c, n, cap) ==
    /\ ctx[c] = "active"
    /\ Len(vecs) < MaxVecs
    /\ cap >= n
    /\ \/ /\ cap = 0
          /\ vecs' = Append(vecs, [ptr |-> Dangling, len |-> 0, cap |-> 0, data |-> <<>>,
                                   buf |-> 0, st |-> "armed", owner |-> c])
          /\ heap' = heap
       \/ /\ cap > 0
          /\ \E a \in FreeAddrs(heap) :
                /\ heap' = Append(heap, [addr |-> a, size |-> cap,
                                         bytes |-> Fill(Len(vecs) + 1, n),
                                         live |-> TRUE, nfree |-> 0])
                /\ vecs' = Append(vecs, [ptr |-> a, len |-> n, cap |-> cap,
                                         data |-> Fill(Len(vecs) + 1, n),
                                         buf |-> Len(heap) + 1,
                                         st |-> "armed", owner |-> c])
    /\ ret' = NoRet
    /\ UNCHANGED <<res, has, ctx, log, ub>>

(***************************************************************************)
(* RawResource::refine(data), called by the owner of the Vec v.            *)
(***************************************************************************)
(* A slip: the Vec is not wrapped, and frees its buffer as refine returns. *)
not_domesticated(v) == v

(* ManuallyDrop::new(data): the Vec will not free its buffer. *)
domesticated(v) == [v EXCEPT !.st = "forgotten"]

(* The Vec as refine leaves it on return: a Vec still armed is dropped. *)
AtReturn(v) == IF v.st = "armed" THEN [v EXCEPT !.st = "dropped"] ELSE v

(* A slip: the Vec is forgotten on every path, the Err return included. *)
ReturnReqs_forgotten(v) == <<>>

ReturnReqs(v) == IF v.st = "armed" THEN VecDropReqs(v) ELSE <<>>

Refine(v) ==
    /\ vecs[v].st = "armed"
    /\ ctx[vecs[v].owner] = "active"
    /\ \/ /\ refine_is_empty(vecs[v])
          /\ ret' = [op |-> "refine", id |-> v, val |-> <<"Err", EmptyBuffer>>,
                     by |-> vecs[v].owner]
          /\ vecs' = [vecs EXCEPT ![v] = AtReturn(vecs[v])]
          /\ Release(Entries(ReturnReqs(vecs[v]), "vec", v, vecs[v].owner))
          /\ UNCHANGED <<res, has>>
       \/ /\ ~refine_is_empty(vecs[v])
          /\ vecs' = [vecs EXCEPT ![v] = AtReturn(domesticated(vecs[v]))]
          /\ Release(Entries(ReturnReqs(domesticated(vecs[v])), "vec", v, vecs[v].owner))
          /\ res' = Append(res, [ptr |-> refine_fields(vecs[v]).ptr,
                                 len |-> refine_fields(vecs[v]).len,
                                 cap |-> refine_fields(vecs[v]).cap,
                                 st |-> "Live", src |-> v])
          /\ has' = [has EXCEPT ![vecs[v].owner] = @ \cup {Len(res) + 1}]
          /\ ret' = [op |-> "refine", id |-> v, val |-> <<"Ok", Len(res) + 1>>,
                     by |-> vecs[v].owner]
    /\ UNCHANGED ctx

(***************************************************************************)
(* The resource r is moved from the context c to the context d (a hand-off *)
(* to another scope or thread).  RawResource is neither Copy nor Clone: a  *)
(* move leaves the value with d alone.                                     *)
(***************************************************************************)
(* A slip: the value is copied, and c keeps it. *)
moved_as_copy(h, r, c, d) == [h EXCEPT ![d] = @ \cup {r}]

moved(h, r, c, d) == [h EXCEPT ![c] = @ \ {r}, ![d] = @ \cup {r}]

Move(r, c, d) ==
    /\ r \in has[c]
    /\ ctx[c] = "active"
    /\ ctx[d] = "active"
    /\ c # d
    /\ has' = moved(has, r, c, d)
    /\ ret' = NoRet
    /\ UNCHANGED <<heap, vecs, res, ctx, log, ub>>

(***************************************************************************)
(* impl Drop for RawResource, run when the context c discards the          *)
(* resource r it holds.                                                    *)
(***************************************************************************)
(* A slip: the scope keeps the value it has dropped. *)
discarded_but_kept(h, c, r) == h

(* The value is gone from the scope that dropped it. *)
discarded(h, c, r) == [h EXCEPT ![c] = @ \ {r}]

Drop(c, r) ==
    /\ r \in has[c]
    /\ ctx[c] = "active"
    /\ Release(Entries(DropReqs(res[r]), "res", r, c))
    /\ res' = [res EXCEPT ![r].st = "Released"]
    /\ has' = discarded(has, c, r)
    /\ ret' = NoRet
    /\ UNCHANGED <<vecs, ctx>>

(***************************************************************************)
(* The scope of context c ends: every resource it holds is dropped, and    *)
(* every Vec it still holds, latest first.                                 *)
(***************************************************************************)
(* A slip: a scope drops the resources built in it, wherever they are. *)
OwnedRes_built_here(c) ==
    {r \in DOMAIN res : res[r].st = "Live" /\ vecs[res[r].src].owner = c}

OwnedRes(c) == has[c]
OwnedVecs(c) == {v \in DOMAIN vecs : vecs[v].st = "armed" /\ vecs[v].owner = c}

RECURSIVE ResExit(_, _)
ResExit(R, c) ==
    IF R = {} THEN <<>>
    ELSE LET r == CHOOSE x \in R : \A y \in R : y <= x
         IN  Entries(DropReqs(res[r]), "res", r, c) \o ResExit(R \ {r}, c)

RECURSIVE VecExit(_, _)
VecExit(V, c) ==
    IF V = {} THEN <<>>
    ELSE LET v == CHOOSE x \in V : \A y \in V : y <= x
         IN  Entries(VecDropReqs(vecs[v]), "vec", v, c) \o VecExit(V \ {v}, c)

ScopeExit(c) ==
    /\ ctx[c] = "active"
    /\ Release(ResExit(OwnedRes(c), c) \o VecExit(OwnedVecs(c), c))
    /\ res' = [r \in DOMAIN res |->
                 IF r \in OwnedRes(c) THEN [res[r] EXCEPT !.st = "Released"] ELSE res[r]]
    /\ vecs' = [v \in DOMAIN vecs |->
                 IF v \in OwnedVecs(c) THEN [vecs[v] EXCEPT !.st = "dropped"] ELSE vecs[v]]
    /\ has' = [has EXCEPT ![c] = {}]
    /\ ctx' = [ctx EXCEPT ![c] = "ended"]
    /\ ret' = NoRet

(***************************************************************************)
(* The accessors take &self.  RawResource is Sync, so the context c that   *)
(* calls one is the holder of the resource r or a thread the holder lent   *)
(* a shared reference to; the borrow ends with the call.                   *)
(***************************************************************************)
Borrowable(c, r) ==
    /\ ctx[c] = "active"
    /\ \E d \in Ctx : r \in has[d]

CallAsPtr(c, r) ==
    /\ Borrowable(c, r)
    /\ ret' = [op |-> "as_ptr", id |-> r, val |-> as_ptr(res[r]), by |-> c]
    /\ UNCHANGED <<heap, vecs, res, has, ctx, log, ub>>

CallLen(c, r) ==
    /\ Borrowable(c, r)
    /\ ret' = [op |-> "len", id |-> r, val |-> len(res[r]), by |-> c]
    /\ UNCHANGED <<heap, vecs, res, has, ctx, log, ub>>

CallIsEmpty(c, r) ==
    /\ Borrowable(c, r)
    /\ ret' = [op |-> "is_empty", id |-> r, val |-> is_empty(res[r]), by |-> c]
    /\ UNCHANGED <<heap, vecs, res, has, ctx, log, ub>>

CallAsSlice(c, r) ==
    /\ Borrowable(c, r)
    /\ \E s \in as_slice(res[r]) :
          ret' = [op |-> "as_slice", id |-> r, val |-> s, by |-> c]
    /\ UNCHANGED <<heap, vecs, res, has, ctx, log, ub>>

Next ==
    \/ \E c \in Ctx, n \in 0..MaxCap, cap \in 0..MaxCap : NewVec(c, n, cap)
    \/ \E v \in DOMAIN vecs : Refine(v)
    \/ \E r \in DOMAIN res, c \in Ctx, d \in Ctx : Move(r, c, d)
    \/ \E c \in Ctx, r \in DOMAIN res : Drop(c, r)
    \/ \E c \in Ctx : ScopeExit(c)
    \/ \E c \in Ctx, r \in DOMAIN res : CallAsPtr(c, r)
    \/ \E c \in Ctx, r \in DOMAIN res : CallLen(c, r)
    \/ \E c \in Ctx, r \in DOMAIN res : CallIsEmpty(c, r)
    \/ \E c \in Ctx, r \in DOMAIN res : CallAsSlice(c, r)

Spec == Init /\ [][Next]_vars

(***************************************************************************)
(* Properties.                                                             *)
(***************************************************************************)
ResEntries(r) == {e \in BagToSet(log) : e.who = "res" /\ e.id = r}
VecEntries(v) == {e \in BagToSet(log) : e.who = "vec" /\ e.id = v}

RECURSIVE Copies(_)
Copies(E) ==
    IF E = {} THEN 0
    ELSE LET e == CHOOSE x \in E : TRUE IN CopiesIn(e, log) + Copies(E \ {e})

(* The number of deallocation requests the drop of resource r has made. *)
ResReleases(r) == Copies(ResEntries(r))

(* The allocation the resource r took over from its Vec. *)
BufOf(r) == vecs[res[r].src].buf

Holders(r) == {c \in Ctx : r \in has[c]}

(* C1: the allocation a successful refine took over is released exactly
   once over the resource's lifetime, by the resource's destruction (never
   by the source Vec), and the request names the allocation's address with
   the original capacity as its size, also when capacity > length. *)
C1_ReleasedOnceWithCapacity ==
    \A r \in DOMAIN res :
        /\ BufOf(r) \in DOMAIN heap
        /\ VecEntries(res[r].src) = {}
        /\ res[r].st = "Live" =>
              /\ ResReleases(r) = 0
              /\ heap[BufOf(r)].live
              /\ heap[BufOf(r)].nfree = 0
        /\ res[r].st = "Released" =>
              /\ ResReleases(r) = 1
              /\ ~heap[BufOf(r)].live
              /\ heap[BufOf(r)].nfree = 1
              /\ \A e \in ResEntries(r) :
                    /\ e.addr = heap[BufOf(r)].addr
                    /\ e.size = heap[BufOf(r)].size
                    /\ e.size = vecs[res[r].src].cap

C1_Witness ==
    \E r \in DOMAIN res :
        /\ res[r].st = "Released"
        /\ vecs[res[r].src].cap > vecs[res[r].src].len
        /\ ResReleases(r) = 1

(* C2: refine of a non-empty Vec (any capacity >= its length) returns Ok,
   and the resource's len() is the Vec's length and its as_slice() the
   Vec's bytes, both right after refine and in what the accessors return. *)
C2_RefineKeepsContent ==
    /\ (ret.op = "refine" /\ vecs[ret.id].data # <<>>) =>
          /\ ret.val[1] = "Ok"
          /\ ret.val[2] \in DOMAIN res
          /\ res[ret.val[2]].src = ret.id
          /\ len(res[ret.val[2]]) = Len(vecs[ret.id].data)
          /\ as_slice(res[ret.val[2]]) = {vecs[ret.id].data}
    /\ ret.op = "len" => ret.val = Len(vecs[res[ret.id].src].data)
    /\ ret.op = "as_slice" => ret.val = vecs[res[ret.id].src].data

C2_Witness ==
    /\ ret.op = "as_slice"
    /\ ret.val # <<>>
    /\ vecs[res[ret.id].src].cap > Len(ret.val)

(* C3: refine of an empty Vec, whatever its capacity, fails with
   EmptyBuffer, the only error refine returns; no resource is made from an
   empty Vec, and no drop of a RawResource releases anything for it. *)
C3_EmptyRejected ==
    /\ ret.op = "refine" =>
          /\ (vecs[ret.id].data = <<>>) <=> (ret.val[1] = "Err")
          /\ ret.val[1] = "Err" => ret.val = <<"Err", EmptyBuffer>>
    /\ \A r \in DOMAIN res : vecs[res[r].src].data # <<>>
    /\ \A e \in BagToSet(log) :
          e.who = "res" =>
              /\ e.id \in DOMAIN res
              /\ vecs[res[e.id].src].data # <<>>
              /\ \A v \in DOMAIN vecs :
                    vecs[v].data = <<>> => vecs[v].buf # BufOf(e.id)

C3_Witness ==
    /\ ret.op = "refine"
    /\ ret.val = <<"Err", EmptyBuffer>>
    /\ vecs[ret.id].cap > 0

(* C4: whatever number of resources is built and destroyed, in whatever
   order, no allocation is released twice (nor by an invalid request), and
   once every resource is destroyed none of their allocations is live. *)
C4_NoDoubleFreeNoLeak ==
    /\ ~ub
    /\ \A i \in DOMAIN heap :
          /\ heap[i].nfree <= 1
          /\ heap[i].live <=> heap[i].nfree = 0
    /\ \A r \in DOMAIN res : res[r].st = "Released" => ~heap[BufOf(r)].live
    /\ (\A r \in DOMAIN res : res[r].st = "Released") =>
          \A i \in DOMAIN heap :
              heap[i].live => \A r \in DOMAIN res : BufOf(r) # i

C4_Witness ==
    /\ Len(res) >= 2
    /\ \A r \in DOMAIN res : res[r].st = "Released"
    /\ \A i \in DOMAIN heap : ~heap[i].live

(* C5: each Live resource's address is that of a live allocation, its own,
   of size at least its capacity, and no other releasing owner refers to
   that allocation: no other Live resource and no armed Vec. *)
C5_LiveAllocationUnaliased ==
    \A r \in DOMAIN res :
        res[r].st = "Live" =>
            /\ \E i \in LiveAt(heap, res[r].ptr) :
                  /\ i = BufOf(r)
                  /\ heap[i].size >= res[r].cap
            /\ \A q \in DOMAIN res \ {r} :
                  res[q].st = "Live" => res[q].ptr # res[r].ptr
            /\ \A v \in DOMAIN vecs :
                  vecs[v].st = "armed" => vecs[v].ptr # res[r].ptr

C5_Witness ==
    \E r \in DOMAIN res, q \in DOMAIN res :
        /\ r # q
        /\ res[r].st = "Live"
        /\ res[q].st = "Live"
        /\ Holders(r) # Holders(q)

(* C6: a move of a Live resource leaves as_ptr(), len() and the bytes seen
   through as_slice() as they were, and releases nothing; the end of a
   scope that no longer holds the resource leaves it Live and its
   allocation untouched; and the one release is made by the scope holding
   the resource when it is dropped. *)
C6_MovePreserves ==
    [][/\ \A r \in DOMAIN res, c \in Ctx, d \in Ctx :
            (c # d /\ r \in has[c] /\ r \in has'[d] /\ r \notin has[d]) =>
                /\ r \notin has'[c]
                /\ as_ptr(res'[r]) = as_ptr(res[r])
                /\ len(res'[r]) = len(res[r])
                /\ ReadMem(heap', res'[r].ptr, res'[r].len)
                      = ReadMem(heap, res[r].ptr, res[r].len)
                /\ res'[r].st = "Live"
                /\ heap' = heap
                /\ log' = log
       /\ \A r \in DOMAIN res, c \in Ctx :
            (ctx[c] = "active" /\ ctx'[c] = "ended"
                /\ res[r].st = "Live" /\ r \notin has[c]) =>
                /\ res'[r].st = "Live"
                /\ Holders(r)' = Holders(r)
                /\ heap'[BufOf(r)] = heap[BufOf(r)]
                /\ ResReleases(r)' = 0
       /\ \A r \in DOMAIN res :
            (res[r].st = "Live" /\ res'[r].st = "Released") =>
                /\ ResReleases(r)' = 1
                /\ ~heap'[BufOf(r)].live
                /\ \A e \in ResEntries(r)' : Holders(r) = {e.by}
      ]_vars

(* A resource moved out of the scope it was built in, that scope ended,
   the resource still Live with its new holder. *)
C6_Witness ==
    \E r \in DOMAIN res :
        /\ res[r].st = "Live"
        /\ ctx[vecs[res[r].src].owner] = "ended"
        /\ Holders(r) # {}
        /\ heap[BufOf(r)].live

(* C7: every resource a successful refine returned has len() > 0 and
   is_empty() false for as long as it lives, and so do the accessors
   answer. *)
C7_NeverEmpty ==
    /\ \A r \in DOMAIN res :
          res[r].st = "Live" => (len(res[r]) > 0 /\ is_empty(res[r]) = FALSE)
    /\ ret.op = "is_empty" => ret.val = FALSE
    /\ ret.op = "len" => ret.val > 0

C7_Witness ==
    /\ ret.op = "is_empty"
    /\ res[ret.id].st = "Live"

(* C8: every resource stores a capacity no smaller than its length. *)
C8_CapAtLeastLen ==
    \A r \in DOMAIN res : res[r].cap >= res[r].len

C8_Witness ==
    \E r \in DOMAIN res :
        /\ res[r].st = "Live"
        /\ res[r].cap > res[r].len

(* C9: a resource is Live or Released; it starts Live; its only change of
   state is Live -> Released, at the end of its lifetime with its holder;
   a Released resource stays Released, is held by no scope (so that no
   drop of it is enabled) and is never released again. *)
C9_OneWayLifecycle ==
    /\ [](\A r \in DOMAIN res :
            /\ res[r].st \in {"Live", "Released"}
            /\ res[r].st = "Released" =>
                  /\ Holders(r) = {}
                  /\ \A c \in Ctx : ~ENABLED Drop(c, r))
    /\ [][/\ DOMAIN res \subseteq DOMAIN res'
          /\ \A r \in DOMAIN res' \ DOMAIN res : res'[r].st = "Live"
          /\ \A r \in DOMAIN res :
                /\ res[r].st = "Released" =>
                      /\ res'[r].st = "Released"
                      /\ ResReleases(r)' = ResReleases(r)
                /\ res'[r].st # res[r].st =>
                      /\ res[r].st = "Live"
                      /\ res'[r].st = "Released"
                      /\ Holders(r) # {}
                      /\ Holders(r)' = {}
         ]_vars

C9_Witness ==
    \E r \in DOMAIN res, q \in DOMAIN res :
        /\ res[r].st = "Released"
        /\ res[q].st = "Live"
        /\ \E c \in Ctx : ctx[c] = "active" /\ has[c] = {q}

(* C10: under every interleaving of the contexts' steps, a Live resource
   is held by exactly one context, an open one; a Released one by none;
   every release of a resource was run by one and the same context, once;
   and the context that runs it is the one holding the resource. *)
C10_SingleOwnerRelease ==
    /\ [](\A r \in DOMAIN res :
            /\ res[r].st = "Live" =>
                  /\ Cardinality(Holders(r)) = 1
                  /\ \A c \in Holders(r) : ctx[c] = "active"
            /\ res[r].st = "Released" => Holders(r) = {}
            /\ ResReleases(r) <= 1
            /\ Cardinality({e.by : e \in ResEntries(r)}) <= 1)
    /\ [][\A r \in DOMAIN res :
            ResEntries(r)' # ResEntries(r) =>
                \A e \in ResEntries(r)' \ ResEntries(r) : e.by \in Holders(r)
         ]_vars

(* A resource handed from the thread that built it to another, and
   released there. *)
C10_Witness ==
    \E r \in DOMAIN res :
        /\ res[r].st = "Released"
        /\ \E e \in ResEntries(r) : e.by # vecs[res[r].src].owner

(* The owners answerable for releasing the allocation of the Vec v: the
   Vec itself while armed, and every Live resource refined from it. *)
Responsible(v) ==
    (IF vecs[v].st = "armed" THEN {<<"vec", v>>} ELSE {})
        \cup {<<"res", r>> : r \in {q \in DOMAIN res : res[q].src = v /\ res[q].st = "Live"}}

(* C11: refine hands ownership over in one step.  After a successful
   refine the Vec is disarmed and never releases anything, its resource
   alone being answerable; after a failed refine there is no resource, and
   the Vec's allocation, if it has one, was released exactly once by the
   Vec's own drop and is not live.  At every moment a live allocation has
   exactly one answerable owner and a freed one has none. *)
C11_AtomicOwnershipTransfer ==
    /\ \A v \in DOMAIN vecs :
          LET made == {r \in DOMAIN res : res[r].src = v} IN
          /\ vecs[v].st = "armed" => (made = {} /\ VecEntries(v) = {})
          /\ vecs[v].st = "forgotten" =>
                /\ Cardinality(made) = 1
                /\ VecEntries(v) = {}
                /\ vecs[v].data # <<>>
          /\ vecs[v].st = "dropped" =>
                /\ made = {}
                /\ vecs[v].buf = 0 => VecEntries(v) = {}
                /\ vecs[v].buf # 0 =>
                      /\ Copies(VecEntries(v)) = 1
                      /\ \A e \in VecEntries(v) :
                            /\ e.addr = heap[vecs[v].buf].addr
                            /\ e.size = heap[vecs[v].buf].size
                      /\ heap[vecs[v].buf].nfree = 1
          /\ vecs[v].buf # 0 =>
                /\ Cardinality(Responsible(v)) <= 1
                /\ heap[vecs[v].buf].live <=> Cardinality(Responsible(v)) = 1
    /\ ret.op = "refine" =>
          /\ ret.val[1] = "Ok" =>
                /\ vecs[ret.id].st = "forgotten"
                /\ Responsible(ret.id) = {<<"res", ret.val[2]>>}
          /\ ret.val[1] = "Err" =>
                /\ vecs[ret.id].st = "dropped"
                /\ Responsible(ret.id) = {}

(* A failed refine of an empty Vec that had a buffer: the buffer is freed. *)
C11_Witness ==
    /\ ret.op = "refine"
    /\ ret.val[1] = "Err"
    /\ vecs[ret.id].buf # 0
    /\ ~heap[vecs[ret.id].buf].live
    /\ Copies(VecEntries(ret.id)) = 1

(* C12: every resource refine returned has a non-null ptr and cap > 0, so
   the guard of drop holds for it and drop never skips the release: what
   drop hands back is one request, made of the stored ptr and cap, and a
   Released resource has made exactly that request. *)
C12_GuardHoldsForRefined ==
    \A r \in DOMAIN res :
        /\ res[r].ptr # Null
        /\ res[r].cap > 0
        /\ drop_guard(res[r])
        /\ DropReqs(res[r]) = <<[addr |-> res[r].ptr, size |-> res[r].cap]>>
        /\ res[r].st = "Released" =>
              /\ ResReleases(r) = 1
              /\ \A e \in ResEntries(r) :
                    e.addr = res[r].ptr /\ e.size = res[r].cap

(* A resource with no spare capacity, dropped: its release was not skipped. *)
C12_Witness ==
    \E r \in DOMAIN res :
        /\ res[r].st = "Released"
        /\ res[r].cap = res[r].len
        /\ \E e \in ResEntries(r) : e.addr = res[r].ptr /\ e.size = res[r].cap

(* C13: a successful refine copies no byte: the resource it makes stores
   the address, length and capacity of the Vec it consumed, and the step
   allocates nothing and frees nothing, so the allocator's allocations,
   their bytes and the requests it has received are those of before. *)
C13_RefineZeroCopy ==
    [][Len(res') = Len(res) + 1 =>
          LET r == Len(res')
              v == res'[r].src
          IN  /\ v \in DOMAIN vecs
              /\ vecs[v].st = "armed"
              /\ res'[r].ptr = vecs[v].ptr
              /\ res'[r].len = vecs[v].len
              /\ res'[r].cap = vecs[v].cap
              /\ heap' = heap
              /\ log' = log
              /\ ub' = ub
              /\ ReadMem(heap', res'[r].ptr, res'[r].len) = {vecs[v].data}
      ]_vars

(* A successful refine of a Vec with spare capacity, made while another
   allocation is live. *)
C13_Witness ==
    /\ ret.op = "refine"
    /\ ret.val[1] = "Ok"
    /\ res[ret.val[2]].cap > res[ret.val[2]].len
    /\ \E i \in LiveAllocs(heap) : i # BufOf(ret.val[2])

AccessorOps == {"as_ptr", "len", "is_empty", "as_slice"}

(* What the accessor op answers on the resource r, told from the Vec the
   resource was refined from, which nothing changes once it is built. *)
Answer(op, r) ==
    CASE op = "as_ptr" -> vecs[res[r].src].ptr
      [] op = "len" -> Len(vecs[res[r].src].data)
      [] op = "is_empty" -> FALSE
      [] op = "as_slice" -> vecs[res[r].src].data

(* C14: on a Live resource each accessor can be called by every open
   context and answers with a value (the read of as_slice is a defined
   one); a call changes nothing but the value returned; and, whoever calls
   and wherever the resource has been moved, every call answers the same:
   the value fixed when the resource was refined, so the value of the
   first call after refine. *)
C14_AccessorsReadOnlyStable ==
    /\ [](/\ \A r \in DOMAIN res :
                res[r].st = "Live" =>
                    /\ Cardinality(as_slice(res[r])) = 1
                    /\ \A c \in Ctx :
                          ctx[c] = "active" =>
                              /\ ENABLED CallAsPtr(c, r)
                              /\ ENABLED CallLen(c, r)
                              /\ ENABLED CallIsEmpty(c, r)
                              /\ ENABLED CallAsSlice(c, r)
          /\ ret.op \in AccessorOps =>
                /\ res[ret.id].st = "Live"
                /\ ret.val = Answer(ret.op, ret.id))
    /\ [][/\ (ret' # ret /\ ret'.op \in AccessorOps) =>
                UNCHANGED <<heap, vecs, res, has, ctx, log, ub>>
          /\ \A r \in DOMAIN res :
                (res[r].st = "Live" /\ res'[r].st = "Live") =>
                    /\ \A op \in AccessorOps : Answer(op, r)' = Answer(op, r)
                    /\ as_ptr(res'[r]) = as_ptr(res[r])
                    /\ len(res'[r]) = len(res[r])
                    /\ is_empty(res'[r]) = is_empty(res[r])
                    /\ as_slice(res[r])' = as_slice(res[r])
         ]_vars

(* A reader thread that does not hold the resource reads its bytes, after
   the resource was moved away from the context that built it. *)
C14_Witness ==
    /\ ret.op = "as_slice"
    /\ ret.by \notin Holders(ret.id)
    /\ vecs[res[ret.id].src].owner \notin Holders(ret.id)
    /\ res[ret.id].cap > res[ret.id].len

====
